---- MODULE Spec2Model ----
(***************************************************************************)
(* Model of packages/remix-architect/server.ts: the adapter between an API *)
(* Gateway v2 event and the Remix request handler.                         *)
(*                                                                         *)
(* Representation of JavaScript values:                                    *)
(*   - header names, header values, hosts, cookies: TLA+ strings;          *)
(*   - rawPath, rawQueryString and the parts of a parsed URL: sequences of *)
(*     one-character strings, because the URL parser works per character;  *)
(*   - bodies: sequences of code points (event, request) because base64    *)
(*     and UTF-8 decoding work on their numeric values;                    *)
(*   - an optional value: a record [some |-> BOOLEAN, ...], or the string  *)
(*     Undefined for an absent header value.                               *)
(***************************************************************************)
EXTENDS Integers, Sequences, FiniteSets, TLC

VARIABLES event, pc, request, error, loadContextKind, handlerCalls, abortedAt,
          response, cookies, isBinary, drained, reply, steps

vars == <<event, pc, request, error, loadContextKind, handlerCalls, abortedAt,
          response, cookies, isBinary, drained, reply, steps>>

\* ------------------------------------------------------------------ bounds
MaxPathLen == 3
MaxQueryLen == 1
MaxHeaders == 3
MaxChunks == 2

\* --------------------------------------------------------- generic helpers
RECURSIVE Str(_)
\* the JavaScript string made of the characters of s
Str(s) == IF s = <<>> THEN "" ELSE Head(s) \o Str(Tail(s))

RECURSIVE SeqsUpTo(_, _)
\* all sequences over S of length at most n
SeqsUpTo(S, n) ==
  IF n = 0 THEN {<<>>}
  ELSE LET shorter == SeqsUpTo(S, n - 1)
       IN shorter \cup {Append(q, c) : q \in shorter, c \in S}

RECURSIVE Join(_, _)
\* Array.prototype.join on an array of strings
Join(list, sep) ==
  IF list = <<>> THEN ""
  ELSE IF Len(list) = 1 THEN list[1]
  ELSE list[1] \o sep \o Join(Tail(list), sep)

\* the value JavaScript gives for a missing property
Undefined == "<undefined>"

\* a value in a template literal: `${undefined}` is "undefined"
TemplateStr(v) == IF v = Undefined THEN "undefined" ELSE v

\* JavaScript truthiness of a string-or-undefined value
Truthy(v) == v # Undefined /\ v # ""

\* String.prototype.toLowerCase on the header names of the model
ToLowerCase(name) ==
  CASE name \in {"Set-Cookie", "SET-COOKIE", "set-cookie"} -> "set-cookie"
    [] name \in {"Content-Type", "content-type"} -> "content-type"
    [] name \in {"Connection", "connection"} -> "connection"
    [] name \in {"Cookie", "cookie"} -> "cookie"
    [] name \in {"Accept", "accept"} -> "accept"
    [] name \in {"Host", "host"} -> "host"
    [] name \in {"X-Forwarded-Host", "x-forwarded-host"} -> "x-forwarded-host"
    [] OTHER -> name

\* String.prototype.toUpperCase on the HTTP methods of the model
ToUpperCase(m) ==
  CASE m \in {"get", "GET"} -> "GET"
    [] m \in {"head", "HEAD"} -> "HEAD"
    [] m \in {"post", "POST"} -> "POST"
    [] OTHER -> m

\* ------------------------------------------------- Headers (node-fetch v2)
\* A Headers object is its internal map in insertion order: a sequence of
\* [name |-> the name as first given, values |-> the list of its values].
EmptyHeaders == <<>>

\* find(map, name): the index of the key equal to name ignoring case, or 0
HeadersFind(h, name) ==
  LET hits == {i \in 1..Len(h) : ToLowerCase(h[i].name) = ToLowerCase(name)}
  IN IF hits = {} THEN 0 ELSE CHOOSE i \in hits : \A j \in hits : i <= j

HeadersAppend(h, name, value) ==
  LET i == HeadersFind(h, name)
  IN IF i = 0 THEN Append(h, [name |-> name, values |-> <<value>>])
     ELSE [h EXCEPT ![i].values = Append(@, value)]

HeadersSet(h, name, value) ==
  LET i == HeadersFind(h, name)
  IN IF i = 0 THEN Append(h, [name |-> name, values |-> <<value>>])
     ELSE [h EXCEPT ![i].values = <<value>>]

HeadersDelete(h, name) ==
  LET i == HeadersFind(h, name)
  IN IF i = 0 THEN h ELSE SubSeq(h, 1, i - 1) \o SubSeq(h, i + 1, Len(h))

\* get: the values joined with ", ", or null (Undefined) without the header
HeadersGet(h, name) ==
  LET i == HeadersFind(h, name)
  IN IF i = 0 THEN Undefined ELSE Join(h[i].values, ", ")

\* Object.fromEntries(headers): iteration yields [lower-cased name, joined
\* values]; the result maps each such name to its value
HeadersToObject(h) ==
  [k \in {ToLowerCase(h[i].name) : i \in 1..Len(h)} |-> HeadersGet(h, k)]

RECURSIVE HeadersFromEntries(_)
\* the Headers a handler builds by appending the entries in order
HeadersFromEntries(entries) ==
  IF entries = <<>> THEN EmptyHeaders
  ELSE LET e == entries[Len(entries)]
       IN HeadersAppend(HeadersFromEntries(SubSeq(entries, 1, Len(entries) - 1)),
                        e.name, e.value)

\* ------------------------------------------------------------ inbound event
\* event.headers[name] on a header object given as a sequence of entries
ObjGet(obj, name) ==
  LET hits == {i \in 1..Len(obj) : obj[i].name = name}
  IN IF hits = {} THEN Undefined ELSE obj[CHOOSE i \in hits : TRUE].value

PathChars == {"/", "a", "."}
QueryChars == {"a"}

\* rawPath of an HTTP request always starts with "/"
RawPaths == {<<"/">> \o p : p \in SeqsUpTo(PathChars, MaxPathLen - 1)}
RawQueryStrings == SeqsUpTo(QueryChars, MaxQueryLen)

Absent == [some |-> FALSE]

\* an optional header of the event object: left out, or present with a value
HeaderChoices(name, values) ==
  {<<>>} \cup {<<[name |-> name, value |-> v]>> : v \in values}

EventHeaders ==
  {x \o h \o a : x \in HeaderChoices("x-forwarded-host", {"", "h1"}),
                 h \in HeaderChoices("host", {"h2", "bad host"}),
                 a \in HeaderChoices("accept", {Undefined})}

EventCookies ==
  {Absent} \cup {[some |-> TRUE, list |-> l] :
                   l \in {<<>>, <<"a=1">>, <<"a=1", "b=2">>}}

\* Bodies as code points. Text bodies: "" and "hi". Base64 bodies, which are
\* what the gateway sends with isBase64Encoded: "aGk=" (the bytes of "hi"),
\* "w6k=" (the bytes C3 A9, the UTF-8 form of U+00E9) and "/w==" (the byte FF).
TextBodies == {<<>>, <<104, 105>>}
Base64Bodies == {<<97, 71, 107, 61>>, <<119, 54, 107, 61>>, <<47, 119, 61, 61>>}

\* body and isBase64Encoded of an event: the flag is set only with no body,
\* an empty body or a base64 body
EventPayloads ==
  {[body |-> Absent, isBase64Encoded |-> f] : f \in BOOLEAN}
    \cup {[body |-> [some |-> TRUE, text |-> t], isBase64Encoded |-> FALSE] :
            t \in TextBodies}
    \cup {[body |-> [some |-> TRUE, text |-> t], isBase64Encoded |-> TRUE] :
            t \in {<<>>} \cup Base64Bodies}

Methods == {"GET", "POST"}

Events ==
  {[rawPath |-> p, rawQueryString |-> q, headers |-> h, cookies |-> c,
    method |-> m, body |-> b.body, isBase64Encoded |-> b.isBase64Encoded] :
     p \in RawPaths, q \in RawQueryStrings, h \in EventHeaders,
     c \in EventCookies, m \in Methods, b \in EventPayloads}

\* ------------------------------------------------------- createRemixHeaders
RECURSIVE AppendTruthy(_, _)
AppendTruthy(h, entries) ==
  IF entries = <<>> THEN h
  ELSE LET e == Head(entries)
       IN AppendTruthy(IF Truthy(e.value) THEN HeadersAppend(h, e.name, e.value)
                       ELSE h,
                       Tail(entries))

RECURSIVE AppendDefined(_, _)
AppendDefined(h, entries) ==
  IF entries = <<>> THEN h
  ELSE LET e == Head(entries)
       IN AppendDefined(IF e.value # Undefined THEN HeadersAppend(h, e.name, e.value)
                        ELSE h,
                        Tail(entries))

\* createRemixHeaders testing value !== undefined in place of truthiness
createRemixHeadersKeepsEmpty(requestHeaders, requestCookies) ==
  LET headers == AppendDefined(EmptyHeaders, requestHeaders)
  IN IF requestCookies.some
     THEN HeadersAppend(headers, "Cookie", Join(requestCookies.list, "; "))
     ELSE headers

createRemixHeaders(requestHeaders, requestCookies) ==
  LET headers == AppendTruthy(EmptyHeaders, requestHeaders)
  IN IF requestCookies.some
     THEN HeadersAppend(headers, "Cookie", Join(requestCookies.list, "; "))
     ELSE headers

\* ------------------------------------------------------ URL (WHATWG parser)
\* The host parser on a host given as a string: the empty host and a host
\* holding a forbidden host code point (here U+0020) are failures.
InvalidHosts == {"", "bad host"}

\* the index of the first c in s at or after position i, or Len(s) + 1
RECURSIVE IndexFrom(_, _, _)
IndexFrom(s, c, i) ==
  IF i > Len(s) THEN Len(s) + 1
  ELSE IF s[i] = c THEN i
  ELSE IndexFrom(s, c, i + 1)

\* the index of the first character of s at or after i that is not c
RECURSIVE SkipAll(_, _, _)
SkipAll(s, c, i) ==
  IF i <= Len(s) /\ s[i] = c THEN SkipAll(s, c, i + 1) ELSE i

RECURSIVE SplitSegments(_)
\* s split on "/": "a/b" gives <<"a", "b">>, "" gives <<"">>
SplitSegments(s) ==
  LET k == IndexFrom(s, "/", 1)
  IN IF k > Len(s) THEN <<s>>
     ELSE <<SubSeq(s, 1, k - 1)>> \o SplitSegments(SubSeq(s, k + 1, Len(s)))

IsSingleDot(seg) == seg = <<".">>
IsDoubleDot(seg) == seg = <<".", ".">>

\* shorten a URL's path (the scheme is not file)
ShortenPath(path) ==
  IF path = <<>> THEN path ELSE SubSeq(path, 1, Len(path) - 1)

RECURSIVE PathSegments(_, _, _)
\* path state: the segments are taken in order; a segment is ended by "/"
\* or, for the last one, by the end of the path
PathSegments(segs, i, acc) ==
  IF i > Len(segs) THEN acc
  ELSE LET seg == segs[i]
           last == (i = Len(segs))
       IN PathSegments(segs, i + 1,
            IF IsDoubleDot(seg)
            THEN (IF last THEN Append(ShortenPath(acc), <<>>) ELSE ShortenPath(acc))
            ELSE IF IsSingleDot(seg)
            THEN (IF last THEN Append(acc, <<>>) ELSE acc)
            ELSE Append(acc, seg))

\* the path of the URL whose path state starts on the characters in rest
PathState(rest) == PathSegments(SplitSegments(rest), 1, <<>>)

RECURSIVE SerializePath(_)
\* URL path serializer: "/" followed by the segment, for each segment
SerializePath(path) ==
  IF path = <<>> THEN <<>>
  ELSE <<"/">> \o Head(path) \o SerializePath(Tail(path))

InvalidURL == [ok |-> FALSE]

\* new URL(input, "https://" + host) for an input that is "/"-led path
\* characters followed by an optional "?query"
ParseURL(input, host) ==
  LET q == IndexFrom(input, "?", 1)
      beforeQuery == SubSeq(input, 1, q - 1)
      hasQuery == q <= Len(input)
      query == SubSeq(input, q + 1, Len(input))
      \* relative slash state: a second "/" starts an authority
      hasAuthority == Len(beforeQuery) >= 2 /\ beforeQuery[2] = "/"
      \* special authority ignore slashes state
      authStart == SkipAll(beforeQuery, "/", 1)
      authEnd == IndexFrom(beforeQuery, "/", authStart)
      authority == SubSeq(beforeQuery, authStart, authEnd - 1)
      afterAuthority == SubSeq(beforeQuery, authEnd + 1, Len(beforeQuery))
  IN IF host \in InvalidHosts THEN InvalidURL
     ELSE IF hasAuthority
     THEN (IF authority = <<>> THEN InvalidURL
           ELSE [ok |-> TRUE, host |-> Str(authority),
                 path |-> PathState(afterAuthority),
                 hasQuery |-> hasQuery, query |-> query])
     ELSE [ok |-> TRUE, host |-> host,
           path |-> PathState(SubSeq(beforeQuery, 2, Len(beforeQuery))),
           hasQuery |-> hasQuery, query |-> query]

\* url.pathname and url.href
Pathname(url) == Str(SerializePath(url.path))
Href(url) ==
  "https://" \o url.host \o Pathname(url)
    \o (IF url.hasQuery THEN "?" \o Str(url.query) ELSE "")

\* ------------------------------------------ Buffer.from(s, "base64").toString()
\* the 6-bit value of a base64 character given by its code point, -1 if none
Base64Value(c) ==
  IF c >= 65 /\ c <= 90 THEN c - 65
  ELSE IF c >= 97 /\ c <= 122 THEN c - 71
  ELSE IF c >= 48 /\ c <= 57 THEN c + 4
  ELSE IF c = 43 \/ c = 45 THEN 62
  ELSE IF c = 47 \/ c = 95 THEN 63
  ELSE -1

\* the characters before the padding that are base64 characters
Base64Digits(text) ==
  LET pad == IndexFrom(text, 61, 1)
  IN SelectSeq([i \in 1..(pad - 1) |-> Base64Value(text[i])], LAMBDA v : v >= 0)

RECURSIVE Base64Bytes(_)
\* the bytes of a sequence of 6-bit values: 4 values give 3 bytes, a final
\* group of 3 gives 2, of 2 gives 1
Base64Bytes(digits) ==
  IF Len(digits) >= 4
  THEN LET n == ((digits[1] * 64 + digits[2]) * 64 + digits[3]) * 64 + digits[4]
       IN <<n \div 65536, (n \div 256) % 256, n % 256>>
            \o Base64Bytes(SubSeq(digits, 5, Len(digits)))
  ELSE IF Len(digits) = 3
  THEN LET n == (digits[1] * 64 + digits[2]) * 64 + digits[3]
       IN <<n \div 1024, (n \div 4) % 256>>
  ELSE IF Len(digits) = 2
  THEN <<(digits[1] * 64 + digits[2]) \div 16>>
  ELSE <<>>

RECURSIVE Utf8ToString(_)
\* Buffer.prototype.toString(): UTF-8 decoding of one- and two-byte
\* sequences; a byte that starts no sequence becomes U+FFFD (65533)
Utf8ToString(bytes) ==
  IF bytes = <<>> THEN <<>>
  ELSE LET b == bytes[1]
       IN IF b < 128 THEN <<b>> \o Utf8ToString(Tail(bytes))
          ELSE IF b >= 194 /\ b <= 223 /\ Len(bytes) >= 2
                  /\ bytes[2] >= 128 /\ bytes[2] <= 191
          THEN <<(b - 192) * 64 + (bytes[2] - 128)>>
                 \o Utf8ToString(SubSeq(bytes, 3, Len(bytes)))
          ELSE <<65533>> \o Utf8ToString(Tail(bytes))

Base64ToString(text) == Utf8ToString(Base64Bytes(Base64Digits(text)))

\* ------------------------------------------------------- createRemixRequest
\* event.headers["x-forwarded-host"] || event.headers.host
ResolveHost(headers) ==
  IF Truthy(ObjGet(headers, "x-forwarded-host"))
  THEN ObjGet(headers, "x-forwarded-host")
  ELSE ObjGet(headers, "host")

\* event.rawQueryString.length ? `?${event.rawQueryString}` : ""
SearchOf(rawQueryString) ==
  IF Len(rawQueryString) # 0 THEN <<"?">> \o rawQueryString ELSE <<>>

\* event.body && event.isBase64Encoded ? decoded : event.body
RequestBody(e) ==
  IF e.body.some /\ e.body.text # <<>> /\ e.isBase64Encoded
  THEN [some |-> TRUE, text |-> Base64ToString(e.body.text)]
  ELSE e.body

NoRequest == [ok |-> FALSE, failure |-> "none"]

\* The request, or the exception thrown while building it: new URL throws on
\* an invalid URL, the Request constructor on a GET or HEAD with a body.
createRemixRequest(e) ==
  LET host == ResolveHost(e.headers)
      search == SearchOf(e.rawQueryString)
      url == ParseURL(e.rawPath \o search, TemplateStr(host))
      method == ToUpperCase(e.method)
      body == RequestBody(e)
  IN IF ~url.ok THEN [ok |-> FALSE, failure |-> "url"]
     ELSE IF body.some /\ method \in {"GET", "HEAD"}
     THEN [ok |-> FALSE, failure |-> "body"]
     ELSE [ok |-> TRUE, url |-> url, method |-> method,
           headers |-> createRemixHeaders(e.headers, e.cookies),
           body |-> body]

\* ---------------------------------------------------- the handler's response
\* the binary media types of @architect/functions that the model uses
binaryTypes == {"application/octet-stream", "image/png"}

ResponseEntries ==
  {[name |-> "Set-Cookie", value |-> "x=1"],
   [name |-> "set-cookie", value |-> "y=2"],
   [name |-> "content-type", value |-> "text/plain"],
   [name |-> "Content-Type", value |-> "image/png"],
   [name |-> "Connection", value |-> "keep-alive"]}

BodyChunks == {"ab", "c"}

\* a response as the handler returns it: entries are the headers it appended
Responses ==
  {[status |-> st, entries |-> es, headers |-> HeadersFromEntries(es), body |-> b] :
     st \in {200}, es \in SeqsUpTo(ResponseEntries, MaxHeaders),
     b \in SeqsUpTo(BodyChunks, MaxChunks)}

NoResponse == [status |-> 0, entries |-> <<>>, headers |-> EmptyHeaders, body |-> <<>>]
NoReply == [some |-> FALSE]
NotDrained == [mode |-> "none", chunks |-> <<>>]

\* ------------------------------------------------------- sendRemixResponse
RECURSIVE SetCookieValuesExactCase(_)
\* the loop comparing key === "set-cookie" without lower-casing it
SetCookieValuesExactCase(raw) ==
  IF raw = <<>> THEN <<>>
  ELSE (IF Head(raw).name = "set-cookie" THEN Head(raw).values ELSE <<>>)
         \o SetCookieValuesExactCase(Tail(raw))

RECURSIVE SetCookieValues(_)
\* the loop over Object.entries(response.headers.raw()): the values of every
\* key that lower-cases to "set-cookie", pushed in order
SetCookieValues(raw) ==
  IF raw = <<>> THEN <<>>
  ELSE (IF ToLowerCase(Head(raw).name) = "set-cookie" THEN Head(raw).values ELSE <<>>)
         \o SetCookieValues(Tail(raw))

\* if (cookies.length) response.headers.delete("set-cookie")
DeleteSetCookie(h, extracted) ==
  IF Len(extracted) # 0 THEN HeadersDelete(h, "set-cookie") ELSE h

\* the abort flag appended to the Connection header instead of set
ApplyAbortFlagAppends(h, aborted) ==
  IF aborted THEN HeadersAppend(h, "Connection", "close") ELSE h

\* if (abortController.signal.aborted) response.headers.set("Connection", "close")
ApplyAbortFlag(h, aborted) ==
  IF aborted THEN HeadersSet(h, "Connection", "close") ELSE h

\* binary as soon as one of the content-type values is a binary type
ClassifyBinaryAnyValue(h) ==
  LET i == HeadersFind(h, "content-type")
  IN IF i = 0 THEN FALSE ELSE \E j \in 1..Len(h[i].values) : h[i].values[j] \in binaryTypes

\* isBinary: false unless content-type is set and is one of binaryTypes
ClassifyBinary(h) ==
  LET contentType == HeadersGet(h, "content-type")
  IN IF Truthy(contentType) THEN contentType \in binaryTypes ELSE FALSE

\* the content type read before the abort flag is applied
NextStepClassifyFirst(step) ==
  CASE step = "cookies" -> "classify"
    [] step = "classify" -> "abortflag"
    [] step = "abortflag" -> "drain"
    [] step = "drain" -> "serialize"
    [] step = "serialize" -> "done"

\* the order of the statements of sendRemixResponse
NextStep(step) ==
  CASE step = "cookies" -> "abortflag"
    [] step = "abortflag" -> "classify"
    [] step = "classify" -> "drain"
    [] step = "drain" -> "serialize"
    [] step = "serialize" -> "done"

\* ------------------------------------------------------------------ actions
\* the events of full invocations: one path and query, no cookies, only a
\* host header
InvocationEvents ==
  {e \in Events : /\ e.rawPath = <<"/", "a">>
                  /\ e.rawQueryString = <<>>
                  /\ e.cookies = Absent
                  /\ Len(e.headers) = 1
                  /\ ObjGet(e.headers, "host") # Undefined
                  /\ ~e.isBase64Encoded
                  /\ e.body \in {Absent, [some |-> TRUE, text |-> <<104, 105>>]}}

InitWith(events, contexts) ==
  /\ event \in events
  /\ loadContextKind \in contexts
  /\ pc = "start"
  /\ request = NoRequest
  /\ error = "none"
  /\ handlerCalls = 0
  /\ abortedAt = "never"
  /\ response = NoResponse
  /\ cookies = <<>>
  /\ isBinary = FALSE
  /\ drained = NotDrained
  /\ reply = NoReply
  /\ steps = <<>>

\* a GET without a body to the host h2
PlainGet ==
  {e \in InvocationEvents : /\ e.method = "GET"
                            /\ e.body = Absent
                            /\ ObjGet(e.headers, "host") = "h2"}

\* getLoadContext is absent, or (for the plain GET) returns a context or throws
Init ==
  \/ InitWith(InvocationEvents, {"none"})
  \/ InitWith(PlainGet, {"returns", "throws"})

InitReq == InitWith(Events, {"none"})

Fail(cause) ==
  /\ pc' = "failed"
  /\ error' = cause

\* let request = createRemixRequest(event, abortController)
CreateRequest ==
  /\ pc = "start"
  /\ LET r == createRemixRequest(event)
     IN IF r.ok
        THEN /\ request' = r
             /\ pc' = "built"
             /\ error' = error
        ELSE /\ request' = request
             /\ Fail(r.failure)
  /\ UNCHANGED <<event, loadContextKind, handlerCalls, abortedAt, response,
                 cookies, isBinary, drained, reply, steps>>

\* typeof getLoadContext === "function" ? getLoadContext(event) : undefined
LoadContext ==
  /\ pc = "built"
  /\ IF loadContextKind = "throws"
     THEN Fail("context")
     ELSE pc' = "ready" /\ error' = error
  /\ UNCHANGED <<event, request, loadContextKind, handlerCalls, abortedAt,
                 response, cookies, isBinary, drained, reply, steps>>

\* handleRequest(request, loadContext) is called and awaited
CallHandler ==
  /\ pc = "ready"
  /\ handlerCalls' = handlerCalls + 1
  /\ pc' = "handler"
  /\ UNCHANGED <<event, request, error, loadContextKind, abortedAt, response,
                 cookies, isBinary, drained, reply, steps>>

\* the handler's promise resolves with a response
HandlerResolve ==
  /\ pc = "handler"
  /\ response' \in Responses
  /\ pc' = "cookies"
  /\ UNCHANGED <<event, request, error, loadContextKind, handlerCalls, abortedAt,
                 cookies, isBinary, drained, reply, steps>>

\* the handler's promise rejects
HandlerReject ==
  /\ pc = "handler"
  /\ Fail("handler")
  /\ UNCHANGED <<event, request, loadContextKind, handlerCalls, abortedAt,
                 response, cookies, isBinary, drained, reply, steps>>

\* Whoever holds the request's abortController aborts it. The adapter runs
\* on one thread, so this happens only while it awaits: the handler, or the
\* body.
Abort ==
  /\ pc \in {"handler", "drain"}
  /\ abortedAt = "never"
  /\ abortedAt' = pc
  /\ UNCHANGED <<event, pc, request, error, loadContextKind, handlerCalls,
                 response, cookies, isBinary, drained, reply, steps>>

aborted == abortedAt # "never"

\* lines 71-84
ExtractCookies ==
  /\ pc = "cookies"
  /\ cookies' = SetCookieValues(response.headers)
  /\ response' = [response EXCEPT !.headers = DeleteSetCookie(@, cookies')]
  /\ steps' = Append(steps, pc)
  /\ pc' = NextStep(pc)
  /\ UNCHANGED <<event, request, error, loadContextKind, handlerCalls, abortedAt,
                 isBinary, drained, reply>>

\* lines 86-88
AbortFlag ==
  /\ pc = "abortflag"
  /\ response' = [response EXCEPT !.headers = ApplyAbortFlag(@, aborted)]
  /\ steps' = Append(steps, pc)
  /\ pc' = NextStep(pc)
  /\ UNCHANGED <<event, request, error, loadContextKind, handlerCalls, abortedAt,
                 cookies, isBinary, drained, reply>>

\* lines 90-98, up to the await: the classification chooses bufferStream or text()
Classify ==
  /\ pc = "classify"
  /\ isBinary' = ClassifyBinary(response.headers)
  /\ drained' = [mode |-> IF isBinary' THEN "stream" ELSE "text", chunks |-> <<>>]
  /\ steps' = Append(steps, pc)
  /\ pc' = NextStep(pc)
  /\ UNCHANGED <<event, request, error, loadContextKind, handlerCalls, abortedAt,
                 response, cookies, reply>>

\* the body stream emits "data"
StreamData ==
  /\ pc = "drain"
  /\ response.body # <<>>
  /\ drained' = [drained EXCEPT !.chunks = Append(@, Head(response.body))]
  /\ response' = [response EXCEPT !.body = Tail(@)]
  /\ UNCHANGED <<event, pc, request, error, loadContextKind, handlerCalls,
                 abortedAt, cookies, isBinary, reply, steps>>

\* the body stream emits "end": the awaited promise resolves
StreamEnd ==
  /\ pc = "drain"
  /\ response.body = <<>>
  /\ steps' = Append(steps, pc)
  /\ pc' = NextStep(pc)
  /\ UNCHANGED <<event, request, error, loadContextKind, handlerCalls, abortedAt,
                 response, cookies, isBinary, drained, reply>>

\* a stream error that ends the drain like "end" does
StreamErrorSwallowed ==
  /\ pc = "drain"
  /\ error' = "stream"
  /\ steps' = Append(steps, pc)
  /\ pc' = "serialize"
  /\ UNCHANGED <<event, request, loadContextKind, handlerCalls, abortedAt,
                 response, cookies, isBinary, drained, reply>>

\* the body stream emits "error": the awaited promise rejects
StreamError ==
  /\ pc = "drain"
  /\ Fail("stream")
  /\ UNCHANGED <<event, request, loadContextKind, handlerCalls, abortedAt,
                 response, cookies, isBinary, drained, reply, steps>>

\* lines 100-106
Serialize ==
  /\ pc = "serialize"
  /\ reply' = [some |-> TRUE,
               statusCode |-> response.status,
               headers |-> HeadersToObject(response.headers),
               cookies |-> cookies,
               body |-> Join(drained.chunks, ""),
               isBase64Encoded |-> isBinary]
  /\ steps' = Append(steps, pc)
  /\ pc' = NextStep(pc)
  /\ UNCHANGED <<event, request, error, loadContextKind, handlerCalls, abortedAt,
                 response, cookies, isBinary, drained>>

Next ==
  \/ CreateRequest
  \/ LoadContext
  \/ CallHandler
  \/ HandlerResolve
  \/ HandlerReject
  \/ Abort
  \/ ExtractCookies
  \/ AbortFlag
  \/ Classify
  \/ StreamData
  \/ StreamEnd
  \/ StreamError
  \/ Serialize

Spec == Init /\ [][Next]_vars

\* request construction alone, over every event of the model
NextReq == CreateRequest

SpecReq == InitReq /\ [][NextReq]_vars

\* =================================================================== claims
xForwardedHost == ObjGet(event.headers, "x-forwarded-host")
hostHeader == ObjGet(event.headers, "host")

\* C4: when the event carries x-forwarded-host = h1, the URL of the built
\* request has host h1 whatever rawPath and rawQueryString are; the host
\* header is used when there is no x-forwarded-host.
C4_ForwardedHostWins ==
  pc = "built" =>
    /\ Truthy(xForwardedHost) => request.url.host = xForwardedHost
    /\ (~Truthy(xForwardedHost) /\ hostHeader # Undefined) =>
         request.url.host = hostHeader

\* C5: the URL of the built request is https://{host}{rawPath}, followed by
\* ?{rawQueryString} exactly when rawQueryString is not empty.
C5_UrlIsHostPathQuery ==
  pc = "built" =>
    Href(request.url) =
      "https://" \o TemplateStr(IF Truthy(xForwardedHost) THEN xForwardedHost
                                ELSE hostHeader)
        \o Str(event.rawPath)
        \o (IF event.rawQueryString = <<>> THEN ""
            ELSE "?" \o Str(event.rawQueryString))

\* C6: the path and the query read back from the URL of the built request
\* are the event's rawPath and rawQueryString, and the request's method is
\* the event's method.
C6_PathQueryMethodRoundTrip ==
  pc = "built" =>
    /\ Pathname(request.url) = Str(event.rawPath)
    /\ (IF request.url.hasQuery THEN Str(request.url.query) ELSE "")
         = Str(event.rawQueryString)
    /\ request.method = event.method

\* "a=1; b=2" for the cookie lists of the model
CookieLine(list) ==
  CASE list = <<>> -> ""
    [] list = <<"a=1">> -> "a=1"
    [] list = <<"a=1", "b=2">> -> "a=1; b=2"

\* C7: the headers of the built request are exactly the event's headers with
\* a non-empty value, plus one Cookie header, the cookies joined with "; ",
\* if and only if the event carries cookies.
C7_HeadersAreNonEmptyPlusCookie ==
  pc = "built" =>
    LET kept == {i \in 1..Len(event.headers) :
                   event.headers[i].value \notin {Undefined, ""}}
        expected ==
          {<<event.headers[i].name, event.headers[i].value>> : i \in kept}
            \cup (IF event.cookies.some
                  THEN {<<"Cookie", CookieLine(event.cookies.list)>>}
                  ELSE {})
    IN /\ UNION {{<<request.headers[i].name, request.headers[i].values[j]>> :
                    j \in 1..Len(request.headers[i].values)} :
                  i \in 1..Len(request.headers)} = expected
       /\ Len(request.headers) = Cardinality(expected)
       /\ \A i \in 1..Len(request.headers) : Len(request.headers[i].values) = 1

C7_Witness ==
  /\ pc = "built"
  /\ event.cookies = [some |-> TRUE, list |-> <<"a=1", "b=2">>]
  /\ xForwardedHost = ""
  /\ \E i \in 1..Len(event.headers) : event.headers[i].value = Undefined
  /\ HeadersGet(request.headers, "cookie") = "a=1; b=2"
  /\ HeadersGet(request.headers, "x-forwarded-host") = Undefined

RECURSIVE Utf8Encode(_)
\* the UTF-8 bytes of a string given as code points below 65536
Utf8Encode(text) ==
  IF text = <<>> THEN <<>>
  ELSE LET c == Head(text)
       IN (IF c < 128 THEN <<c>>
           ELSE IF c < 2048 THEN <<192 + (c \div 64), 128 + (c % 64)>>
           ELSE <<224 + (c \div 4096), 128 + ((c \div 64) % 64), 128 + (c % 64)>>)
            \o Utf8Encode(Tail(text))

\* C8: the body of the built request is the base64-decoding of the event
\* body exactly when isBase64Encoded is true and the body is not empty; in
\* every other case it is the event body unchanged, absent when absent.
C8_BodyIsBase64Decoding ==
  pc = "built" =>
    IF event.isBase64Encoded /\ event.body.some /\ event.body.text # <<>>
    THEN /\ request.body.some
         /\ Utf8Encode(request.body.text) = Base64Bytes(Base64Digits(event.body.text))
    ELSE request.body = event.body

\* the values the handler gave under a header name, in the order it gave them
EntryValues(entries, lowerName) ==
  LET named == SelectSeq(entries, LAMBDA e : ToLowerCase(e.name) = lowerName)
  IN [i \in 1..Len(named) |-> named[i].value]

SetCookieNames == {"Set-Cookie", "set-cookie", "SET-COOKIE"}

\* C1: every Set-Cookie value of the response, whatever the case of the
\* header name, is in the reply's cookies list, unmodified, in order and with
\* nothing else, and the reply's headers have no set-cookie key in any case.
C1_CookiesMovedOutOfHeaders ==
  pc = "done" =>
    /\ reply.cookies =
         LET given == SelectSeq(response.entries, LAMBDA e : e.name \in SetCookieNames)
         IN [i \in 1..Len(given) |-> given[i].value]
    /\ DOMAIN reply.headers \cap SetCookieNames = {}

C1_Witness ==
  /\ pc = "done"
  /\ response.entries = <<[name |-> "Set-Cookie", value |-> "x=1"],
                          [name |-> "set-cookie", value |-> "y=2"],
                          [name |-> "content-type", value |-> "text/plain"]>>
  /\ reply.cookies = <<"x=1", "y=2">>
  /\ DOMAIN reply.headers = {"content-type"}
  /\ ~reply.isBase64Encoded
  /\ reply.body = "abc"

\* C2: isBase64Encoded of the reply is true if and only if the response has
\* a content-type header whose value is one of the binary types; without a
\* content-type it is false; and it is true exactly when the body was
\* drained as a byte stream instead of read as text.
C2_Base64FlagIsBinaryContentType ==
  pc = "done" =>
    LET types == EntryValues(response.entries, "content-type")
    IN /\ reply.isBase64Encoded <=> (Len(types) = 1 /\ types[1] \in binaryTypes)
       /\ Len(types) = 0 => ~reply.isBase64Encoded
       /\ reply.isBase64Encoded <=> drained.mode = "stream"
       /\ ~reply.isBase64Encoded <=> drained.mode = "text"

C2_Witness ==
  /\ pc = "done"
  /\ reply.isBase64Encoded
  /\ reply.headers["content-type"] = "image/png"
  /\ drained.mode = "stream"
  /\ drained.chunks # <<>>

HasConnectionClose(headers) ==
  "connection" \in DOMAIN headers /\ headers["connection"] = "close"

\* C3 as stated: if the token is aborted at any moment before the reply is
\* serialized, while the handler runs or while the body is drained, the
\* reply's headers map Connection to close.
C3_AbortedAnytimeGivesClose ==
  (pc = "done" /\ aborted) => HasConnectionClose(reply.headers)

\* C3 amended: if the token is aborted while the handler runs, that is before
\* sendRemixResponse starts, the reply's headers map Connection to close,
\* overwriting the handler's value; an abort during the drain of the body
\* leaves the Connection header as the handler gave it.
C3_AbortedBeforeSendGivesClose ==
  pc = "done" =>
    /\ abortedAt = "handler" => HasConnectionClose(reply.headers)
    /\ abortedAt # "handler" =>
         LET given == EntryValues(response.entries, "connection")
         IN IF Len(given) = 0 THEN "connection" \notin DOMAIN reply.headers
            ELSE /\ "connection" \in DOMAIN reply.headers
                 /\ reply.headers["connection"] = Join(given, ", ")

C3_Witness ==
  /\ pc = "done"
  /\ abortedAt = "handler"
  /\ \E i \in 1..Len(response.entries) : response.entries[i].name = "Connection"
  /\ reply.headers["connection"] = "close"

\* C9 as stated: in one invocation the handler is called exactly once, also
\* in an invocation that ends as a failure.
C9_HandlerCalledExactlyOnce ==
  pc \in {"done", "failed"} => handlerCalls = 1

\* C9 amended: the handler is called at most once, and exactly once in every
\* invocation whose request was built and whose load context was obtained;
\* any failure ends the invocation as a failure without a reply, nothing is
\* retried, and a reply exists only after an invocation without failure.
C9_FailureEndsInvocation ==
  /\ handlerCalls <= 1
  /\ pc \notin {"start", "built", "ready", "failed"} => handlerCalls = 1
  /\ pc = "failed" => handlerCalls = (IF error \in {"handler", "stream"} THEN 1 ELSE 0)
  /\ error # "none" <=> pc = "failed"
  /\ pc = "failed" => reply = NoReply
  /\ reply # NoReply <=> pc = "done"

C9_Witness ==
  /\ pc = "failed"
  /\ error = "stream"
  /\ drained.chunks # <<>>
  /\ handlerCalls = 1
  /\ reply = NoReply

StepOrder == <<"cookies", "abortflag", "classify", "drain", "serialize">>

\* C10: the steps of sendRemixResponse happen in the order cookie extraction,
\* abort flag, classification and body materialization, serialization; the
\* abort-flag step leaves the cookies list as it is, and the classification
\* is that of the content-type in the headers after the abort-flag step.
C10_StepsInOrder ==
  /\ [](/\ steps = SubSeq(StepOrder, 1, Len(steps))
        /\ pc = "done" => steps = StepOrder
        /\ pc \in {"drain", "serialize", "done"} =>
             isBinary = (HeadersGet(response.headers, "content-type") \in binaryTypes)
        /\ pc = "done" => reply.cookies = cookies)
  /\ [][pc = "abortflag" => cookies' = cookies]_vars
  /\ [][pc = "classify" =>
          /\ "abortflag" \in {steps[i] : i \in 1..Len(steps)}
          /\ aborted => HeadersGet(response.headers, "connection") = "close"]_vars

C10_Witness ==
  /\ pc = "done"
  /\ abortedAt = "handler"
  /\ reply.cookies # <<>>
  /\ reply.isBase64Encoded
  /\ steps = StepOrder

====
